---- MODULE Spec2Model ----
(***************************************************************************)
(* Preference-optimisation losses of torchtune/rlhf/loss/dpo.py:           *)
(* DPOLoss, DPOPLoss, RPOLoss, RSOLoss and SimPOLoss.                      *)
(*                                                                         *)
(* Numbers.  A tensor element is a fixed-point integer, One units per 1.0  *)
(* (1e-5 resolution).  A scalar hyperparameter is an integer number of     *)
(* tenths (beta = 0.1 is 1, label_smoothing = 0.5 is 5), except           *)
(* lambda_dpop, which is kept at the resolution of a tensor element (One   *)
(* per 1.0) so that the 1e-5 its docstring names is a value.  With         *)
(* log-probs that are multiples of 0.1 and a log-sigmoid tabulated to      *)
(* 1e-4, every product the losses form is exact in this representation.    *)
(*                                                                         *)
(* Tensors.  A tensor value is a record [ok, sid, v, graph]: v is the      *)
(* data, sid names the storage the data lives in (two tensors with the     *)
(* same sid alias each other), graph is the set of input tensors autograd  *)
(* reaches from it, and ok = FALSE is the RuntimeError torch raises when   *)
(* two shapes do not broadcast.                                            *)
(***************************************************************************)
EXTENDS Integers, Sequences, FiniteSets, TLC

VARIABLES
    loss,   \* the loss module object (self), or NoLoss before __init__
    heap,   \* storage name -> data, for the caller's inputs and the returned tensors
    out,    \* what the last forward call gave back to the caller
    calls   \* history: the forward calls made on the object, counted by SpecHistory

vars == <<loss, heap, out, calls>>

(***************************************************************************)
(* Bounds and input sets                                                   *)
(***************************************************************************)
\* longest input vector
MaxLen == 3

\* fixed-point units per 1.0 of a tensor element
One == 10 * 10000

\* scalar hyperparameter units per 1.0
HyperOne == One \div 10000

Kinds == {"DPO", "DPOP", "RPO", "RSO", "SimPO"}

InputNames == {"policy_chosen_logps", "policy_rejected_logps",
               "reference_chosen_logps", "reference_rejected_logps", "nll_loss"}

OutputNames == {"losses", "chosen_rewards", "rejected_rewards"}

\* the positional parameters of forward, per class
Params(kind) ==
    IF kind = "SimPO" THEN {"policy_chosen_logps", "policy_rejected_logps"}
    ELSE IF kind = "RPO" THEN InputNames
    ELSE IF kind \in {"DPO", "DPOP", "RSO"} THEN InputNames \ {"nll_loss"}
    ELSE {}

\* element values the caller may put in each input (fixed point), in the
\* order a batch takes them
ValSeq(name) ==
    CASE name = "policy_chosen_logps"      -> <<-One, -2 * One, -2 * One>>
      [] name = "policy_rejected_logps"    -> <<-2 * One>>
      [] name = "reference_chosen_logps"   -> <<-(3 * One) \div 2>>
      [] name = "reference_rejected_logps" -> <<-(5 * One) \div 2, -One \div 2>>
      [] name = "nll_loss"                 -> <<(7 * One) \div 10>>

\* the vectors a caller may pass: any length up to MaxLen, the examples
\* taking the values of ValSeq in turn from any starting point
Vectors(name) ==
    LET k == Len(ValSeq(name))
    IN  {[i \in 1..n |-> ValSeq(name)[((start + i) % k) + 1]] :
            n \in 1..MaxLen, start \in 0..(k - 1)}

\* the scale of the log-probs of long sequences (sums of token log-probs)
Magnitude == 100

\* the same vectors at that scale: log-probs of -50.0 to -250.0
LargeVectors(name) ==
    {[i \in 1..Len(vec) |-> Magnitude * vec[i]] : vec \in Vectors(name)}

\* the policy model's outputs are the leaves that require grad; the
\* reference model's log-probs are computed without grad
RequiresGrad(name) ==
    name \in {"policy_chosen_logps", "policy_rejected_logps", "nll_loss"}

(***************************************************************************)
(* Scalar arithmetic                                                       *)
(***************************************************************************)
Min(a, b) == IF a < b THEN a ELSE b
Max(a, b) == IF a > b THEN a ELSE b
Abs(a) == IF a < 0 THEN -a ELSE a

\* python scalar (tenths) times tensor element
Mul(h, x) == (h * x) \div HyperOne

\* the unit a tensor element enters a product with lambda_dpop in (1e-2),
\* which keeps the product within TLC's integers
LambdaGrain == One \div 100

\* python scalar lambda_dpop (One per 1.0) times tensor element
LambdaMul(l, x) == (l * (x \div LambdaGrain)) \div (One \div LambdaGrain)

\* log(1 + exp(-a)) for a >= 0 at a = 0, 0.5, 1.0, ... in 1e-4 units
SoftplusTable ==
    <<6931, 4741, 3133, 2014, 1269, 789, 486, 298, 181, 110, 67,
      41, 25, 15, 9, 6, 3, 2, 1, 1, 0>>

KnotStep == One \div 2

\* log1p(exp(-a)), a >= 0: linear between the knots, 0 beyond the last
Log1pExpNeg(a) ==
    LET k == a \div KnotStep
        r == a % KnotStep
    IN  IF k + 1 >= Len(SoftplusTable) THEN 0
        ELSE LET lo == SoftplusTable[k + 1]
                 hi == SoftplusTable[k + 2]
             IN  10 * (lo - ((lo - hi) * (r \div 10)) \div (KnotStep \div 10))

\* float32's exp overflows to inf above 88.72
ExpOverflow == 88 * One

\* the magnitude standing for an infinite float; every finite value the
\* losses form stays below it
FloatInf == 1000 * One

\* a slip: torch.log(torch.sigmoid(x)) with sigmoid(x) = 1 / (1 + exp(-x));
\* exp(-x) overflows, the sigmoid is 0 and its log is -inf
LogSigmoidNaive(x) ==
    IF -x > ExpOverflow THEN -FloatInf
    ELSE Min(x, 0) - Log1pExpNeg(Abs(x))

\* F.logsigmoid, the stable form min(x, 0) - log1p(exp(-|x|))
LogSigmoid(x) == Min(x, 0) - Log1pExpNeg(Abs(x))

(***************************************************************************)
(* Tensors                                                                 *)
(***************************************************************************)
Tensor(sid, v, graph) == [ok |-> TRUE, sid |-> sid, v |-> v, graph |-> graph]

\* the RuntimeError of an operation whose operands do not broadcast
Raise == [ok |-> FALSE, sid |-> "none", v |-> <<>>, graph |-> {}]

\* torch's broadcast of two 1-d shapes; -1 when they are incompatible
BroadcastLen(m, n) ==
    IF m = n THEN m
    ELSE IF m = 1 THEN n
    ELSE IF n = 1 THEN m
    ELSE -1

\* element i of a vector expanded to a broadcast shape
At(v, i) == IF Len(v) = 1 THEN v[1] ELSE v[i]

\* the shape of a unary result, -1 when the operand carries an exception
Shape1(a) == IF a.ok THEN Len(a.v) ELSE -1

\* the shape of a binary elementwise result, -1 when it raises
Shape2(a, b) == IF a.ok /\ b.ok THEN BroadcastLen(Len(a.v), Len(b.v)) ELSE -1

\* a slip: the operands of a subtraction exchanged
SubReversed(sid, a, b) ==
    IF Shape2(a, b) = -1 THEN Raise
    ELSE Tensor(sid, [i \in 1..Shape2(a, b) |-> At(b.v, i) - At(a.v, i)],
                a.graph \cup b.graph)

\* a slip: a.sub_(b), the difference formed in a's own storage
SubInplace(sid, a, b) ==
    IF Shape2(a, b) = -1 THEN Raise
    ELSE Tensor(a.sid, [i \in 1..Shape2(a, b) |-> At(a.v, i) - At(b.v, i)],
                a.graph \cup b.graph)

\* a - b: a fresh tensor in storage sid
Sub(sid, a, b) ==
    IF Shape2(a, b) = -1 THEN Raise
    ELSE Tensor(sid, [i \in 1..Shape2(a, b) |-> At(a.v, i) - At(b.v, i)],
                a.graph \cup b.graph)

\* a slip: the auxiliary term subtracted instead of added
AddNegated(sid, a, b) ==
    IF Shape2(a, b) = -1 THEN Raise
    ELSE Tensor(sid, [i \in 1..Shape2(a, b) |-> At(a.v, i) - At(b.v, i)],
                a.graph \cup b.graph)

\* a + b
Add(sid, a, b) ==
    IF Shape2(a, b) = -1 THEN Raise
    ELSE Tensor(sid, [i \in 1..Shape2(a, b) |-> At(a.v, i) + At(b.v, i)],
                a.graph \cup b.graph)

\* a slip: the clamp at zero left out, the penalty being its second operand
MaximumMissing(sid, a, b) ==
    IF Shape2(a, b) = -1 THEN Raise
    ELSE Tensor(sid, [i \in 1..Shape2(a, b) |-> At(b.v, i)],
                a.graph \cup b.graph)

\* torch.maximum
Maximum(sid, a, b) ==
    IF Shape2(a, b) = -1 THEN Raise
    ELSE Tensor(sid, [i \in 1..Shape2(a, b) |-> Max(At(a.v, i), At(b.v, i))],
                a.graph \cup b.graph)

\* torch.zeros(shape): fresh, outside any graph
Zeros(sid, a) ==
    IF Shape1(a) = -1 THEN Raise
    ELSE Tensor(sid, [i \in 1..Shape1(a) |-> 0], {})

\* python scalar * tensor
Scale(sid, h, a) ==
    IF Shape1(a) = -1 THEN Raise
    ELSE Tensor(sid, [i \in 1..Shape1(a) |-> Mul(h, a.v[i])], a.graph)

\* lambda_dpop * tensor
LambdaScale(sid, l, a) ==
    IF Shape1(a) = -1 THEN Raise
    ELSE Tensor(sid, [i \in 1..Shape1(a) |-> LambdaMul(l, a.v[i])], a.graph)

\* tensor - python float c (c already a tensor-element value)
Shift(sid, a, c) ==
    IF Shape1(a) = -1 THEN Raise
    ELSE Tensor(sid, [i \in 1..Shape1(a) |-> a.v[i] - c], a.graph)

\* a slip: .detach() left out
DetachMissing(a) == a

\* tensor.detach(): the same storage, cut from the graph
Detach(a) == IF ~a.ok THEN Raise ELSE [a EXCEPT !.graph = {}]

\* a += b: written into a's own storage; the result must keep a's shape
InplaceAdd(a, b) ==
    IF ~a.ok \/ ~b.ok THEN Raise
    ELSE IF BroadcastLen(Len(a.v), Len(b.v)) # Len(a.v) THEN Raise
    ELSE Tensor(a.sid, [i \in 1..Len(a.v) |-> a.v[i] + At(b.v, i)],
                a.graph \cup b.graph)

\* the caller's tensor `name`, read from its storage
Arg(h, name) ==
    Tensor(name, h[name], IF RequiresGrad(name) THEN {name} ELSE {})

RECURSIVE SumTo(_, _)
SumTo(v, n) == IF n = 0 THEN 0 ELSE v[n] + SumTo(v, n - 1)

\* tensor.mean(): a fresh one-element tensor
Mean(sid, a) ==
    IF ~a.ok THEN Raise
    ELSE Tensor(sid, <<SumTo(a.v, Len(a.v)) \div Len(a.v)>>, a.graph)

\* what forward hands back: the three tensors, or the exception
Outcome(losses, chosen_rewards, rejected_rewards, writes) ==
    IF losses.ok /\ chosen_rewards.ok /\ rejected_rewards.ok
    THEN [status |-> "returned", losses |-> losses,
          chosen_rewards |-> chosen_rewards,
          rejected_rewards |-> rejected_rewards, writes |-> writes]
    ELSE [status |-> "raised", losses |-> Raise, chosen_rewards |-> Raise,
          rejected_rewards |-> Raise, writes |-> writes]

\* a slip: the batch mean of the loss returned in place of the per-example loss
ReturnedReduced(losses, chosen_rewards, rejected_rewards, writes) ==
    Outcome(Mean("losses", losses), chosen_rewards, rejected_rewards, writes)

\* return losses, chosen_rewards, rejected_rewards
Returned(losses, chosen_rewards, rejected_rewards, writes) ==
    Outcome(losses, chosen_rewards, rejected_rewards, writes)

\* the in-place writes of a call: storage -> data, for the tensors written
WritesOf(t) == IF t.ok THEN {<<t.sid, t.v>>} ELSE {}

(***************************************************************************)
(* The smoothed logistic loss shared by DPOLoss, RPOLoss and SimPOLoss     *)
(***************************************************************************)
\* a slip: the weights of the two label terms exchanged
SmoothedLogisticSwapped(beta, label_smoothing, logit) ==
    Mul(label_smoothing, -LogSigmoid(Mul(beta, logit)))
    - Mul(HyperOne - label_smoothing, LogSigmoid(Mul(-beta, logit)))

\* -logsigmoid(beta*logit)*(1 - label_smoothing)
\*   - logsigmoid(-beta*logit)*label_smoothing, for one element
SmoothedLogistic(beta, label_smoothing, logit) ==
    Mul(HyperOne - label_smoothing, -LogSigmoid(Mul(beta, logit)))
    - Mul(label_smoothing, LogSigmoid(Mul(-beta, logit)))

\* the smoothed logistic loss of a tensor of logits
SmoothedLogisticLoss(sid, beta, label_smoothing, logits) ==
    IF Shape1(logits) = -1 THEN Raise
    ELSE Tensor(sid,
                [i \in 1..Shape1(logits) |->
                    SmoothedLogistic(beta, label_smoothing, logits.v[i])],
                logits.graph)

(***************************************************************************)
(* DPOLoss                                                                 *)
(***************************************************************************)
DPOLoss_init(beta, label_smoothing, lambda_dpop) ==
    [kind |-> "DPO", beta |-> beta, label_smoothing |-> label_smoothing,
     lambda_dpop |-> lambda_dpop]

\* a slip: the penalty added without its weight
PenalisedLogitsUnweighted(self, logits, penalty) ==
    InplaceAdd(logits, Scale("tmp_scaled", -HyperOne, penalty))

\* logits += -self.lambda_dpop * penalty
PenalisedLogits(self, logits, penalty) ==
    InplaceAdd(logits, LambdaScale("tmp_scaled", -self.lambda_dpop, penalty))

\* the logits of DPOLoss.forward once the penalty has been added in place
DPOLoss_logits(self, h) ==
    LET policy_chosen_logps == Arg(h, "policy_chosen_logps")
        policy_rejected_logps == Arg(h, "policy_rejected_logps")
        reference_chosen_logps == Arg(h, "reference_chosen_logps")
        reference_rejected_logps == Arg(h, "reference_rejected_logps")
        pi_logratios == Sub("pi_logratios", policy_chosen_logps, policy_rejected_logps)
        ref_logratios == Sub("ref_logratios", reference_chosen_logps,
                             reference_rejected_logps)
        logits == Sub("logits", pi_logratios, ref_logratios)
        penalty == Maximum("penalty", Zeros("zeros", policy_chosen_logps),
                           Sub("tmp_penalty", reference_chosen_logps,
                               policy_chosen_logps))
    IN  PenalisedLogits(self, logits, penalty)

DPOLoss_forward(self, h) ==
    LET policy_chosen_logps == Arg(h, "policy_chosen_logps")
        policy_rejected_logps == Arg(h, "policy_rejected_logps")
        reference_chosen_logps == Arg(h, "reference_chosen_logps")
        reference_rejected_logps == Arg(h, "reference_rejected_logps")
        logits == DPOLoss_logits(self, h)
        losses == SmoothedLogisticLoss("losses", self.beta, self.label_smoothing, logits)
        chosen_rewards ==
            Scale("chosen_rewards", self.beta,
                  Detach(Sub("tmp_chosen", policy_chosen_logps, reference_chosen_logps)))
        rejected_rewards ==
            Scale("rejected_rewards", self.beta,
                  Detach(Sub("tmp_rejected", policy_rejected_logps,
                             reference_rejected_logps)))
    IN  Returned(losses, chosen_rewards, rejected_rewards, WritesOf(logits))

(***************************************************************************)
(* DPOPLoss                                                                *)
(***************************************************************************)
DPOPLoss_init(beta, label_smoothing, lambda_dpop) ==
    [kind |-> "DPOP", beta |-> beta, label_smoothing |-> label_smoothing,
     lambda_dpop |-> lambda_dpop]

\* a slip: the label-smoothing blend of DPOLoss carried over to DPOP
DPOPTermSmoothed(sid, self, logits, positive_reg) ==
    IF Shape2(logits, positive_reg) = -1 THEN Raise
    ELSE Tensor(sid,
                [i \in 1..Shape2(logits, positive_reg) |->
                    SmoothedLogistic(self.beta, self.label_smoothing,
                                     At(logits.v, i))
                    + LambdaMul(self.lambda_dpop, Max(At(positive_reg.v, i), 0))],
                logits.graph \cup positive_reg.graph)

\* -(logsigmoid(beta*logits) - lambda_dpop*clamp(positive_reg, min=0))
DPOPTerm(sid, self, logits, positive_reg) ==
    IF Shape2(logits, positive_reg) = -1 THEN Raise
    ELSE Tensor(sid,
                [i \in 1..Shape2(logits, positive_reg) |->
                    -(LogSigmoid(Mul(self.beta, At(logits.v, i)))
                      - LambdaMul(self.lambda_dpop, Max(At(positive_reg.v, i), 0)))],
                logits.graph \cup positive_reg.graph)

DPOPLoss_forward(self, h) ==
    LET policy_chosen_logps == Arg(h, "policy_chosen_logps")
        policy_rejected_logps == Arg(h, "policy_rejected_logps")
        reference_chosen_logps == Arg(h, "reference_chosen_logps")
        reference_rejected_logps == Arg(h, "reference_rejected_logps")
        pi_logratios == Sub("pi_logratios", policy_chosen_logps, policy_rejected_logps)
        ref_logratios == Sub("ref_logratios", reference_chosen_logps,
                             reference_rejected_logps)
        logits == Sub("logits", pi_logratios, ref_logratios)
        positive_reg == Sub("positive_reg", reference_chosen_logps, policy_chosen_logps)
        losses == DPOPTerm("losses", self, logits, positive_reg)
        chosen_rewards ==
            Scale("chosen_rewards", self.beta,
                  Detach(Sub("tmp_chosen", policy_chosen_logps, reference_chosen_logps)))
        rejected_rewards ==
            Scale("rejected_rewards", self.beta,
                  Detach(Sub("tmp_rejected", policy_rejected_logps,
                             reference_rejected_logps)))
    IN  Returned(losses, chosen_rewards, rejected_rewards, {})

(***************************************************************************)
(* RPOLoss                                                                 *)
(***************************************************************************)
RPOLoss_init(beta, label_smoothing, rpo_alpha) ==
    [kind |-> "RPO", beta |-> beta, label_smoothing |-> label_smoothing,
     rpo_alpha |-> rpo_alpha]

RPOLoss_forward(self, h) ==
    LET policy_chosen_logps == Arg(h, "policy_chosen_logps")
        policy_rejected_logps == Arg(h, "policy_rejected_logps")
        reference_chosen_logps == Arg(h, "reference_chosen_logps")
        reference_rejected_logps == Arg(h, "reference_rejected_logps")
        nll_loss == Arg(h, "nll_loss")
        pi_logratios == Sub("pi_logratios", policy_chosen_logps, policy_rejected_logps)
        ref_logratios == Sub("ref_logratios", reference_chosen_logps,
                             reference_rejected_logps)
        logits == Sub("logits", pi_logratios, ref_logratios)
        losses0 ==
            SmoothedLogisticLoss("losses0", self.beta, self.label_smoothing, logits)
        losses == Add("losses", losses0, Scale("tmp_nll", self.rpo_alpha, nll_loss))
        chosen_rewards ==
            Scale("chosen_rewards", self.beta,
                  Detach(Sub("tmp_chosen", policy_chosen_logps, reference_chosen_logps)))
        rejected_rewards ==
            Scale("rejected_rewards", self.beta,
                  Detach(Sub("tmp_rejected", policy_rejected_logps,
                             reference_rejected_logps)))
    IN  Returned(losses, chosen_rewards, rejected_rewards, {})

(***************************************************************************)
(* RSOLoss                                                                 *)
(***************************************************************************)
RSOLoss_init(gamma) == [kind |-> "RSO", gamma |-> gamma]

\* a slip: the hinge left out
ReluMissing(x) == x

\* torch.relu
Relu(x) == Max(x, 0)

\* torch.relu(1 - gamma * logits)
Hinge(sid, gamma, logits) ==
    IF Shape1(logits) = -1 THEN Raise
    ELSE Tensor(sid,
                [i \in 1..Shape1(logits) |-> Relu(One - Mul(gamma, logits.v[i]))],
                logits.graph)

RSOLoss_forward(self, h) ==
    LET policy_chosen_logps == Arg(h, "policy_chosen_logps")
        policy_rejected_logps == Arg(h, "policy_rejected_logps")
        reference_chosen_logps == Arg(h, "reference_chosen_logps")
        reference_rejected_logps == Arg(h, "reference_rejected_logps")
        pi_logratios == Sub("pi_logratios", policy_chosen_logps, policy_rejected_logps)
        ref_logratios == Sub("ref_logratios", reference_chosen_logps,
                             reference_rejected_logps)
        logits == Sub("logits", pi_logratios, ref_logratios)
        losses == Hinge("losses", self.gamma, logits)
        chosen_rewards ==
            Scale("chosen_rewards", self.gamma,
                  Detach(Sub("tmp_chosen", policy_chosen_logps, reference_chosen_logps)))
        rejected_rewards ==
            Scale("rejected_rewards", self.gamma,
                  Detach(Sub("tmp_rejected", policy_rejected_logps,
                             reference_rejected_logps)))
    IN  Returned(losses, chosen_rewards, rejected_rewards, {})

(***************************************************************************)
(* SimPOLoss                                                               *)
(***************************************************************************)
SimPOLoss_init(beta, gamma, label_smoothing) ==
    [kind |-> "SimPO", beta |-> beta, gamma |-> gamma,
     label_smoothing |-> label_smoothing]

\* a slip: the margin not divided by beta
GammaLogratiosUnscaled(self) == (self.gamma * One) \div HyperOne

\* self.gamma / self.beta, a python float, as a tensor-element offset
GammaLogratios(self) == (self.gamma * One) \div self.beta

SimPOLoss_forward(self, h) ==
    LET policy_chosen_logps == Arg(h, "policy_chosen_logps")
        policy_rejected_logps == Arg(h, "policy_rejected_logps")
        pi_logratios == Sub("pi_logratios", policy_chosen_logps, policy_rejected_logps)
        gamma_logratios == GammaLogratios(self)
        logits == Shift("logits", pi_logratios, gamma_logratios)
        losses == SmoothedLogisticLoss("losses", self.beta, self.label_smoothing, logits)
        chosen_rewards == Scale("chosen_rewards", self.beta, Detach(policy_chosen_logps))
        rejected_rewards ==
            Scale("rejected_rewards", self.beta, Detach(policy_rejected_logps))
    IN  Returned(losses, chosen_rewards, rejected_rewards, {})

\* forward of whichever class self is
Forward(self, h) ==
    CASE self.kind = "DPO"   -> DPOLoss_forward(self, h)
      [] self.kind = "DPOP"  -> DPOPLoss_forward(self, h)
      [] self.kind = "RPO"   -> RPOLoss_forward(self, h)
      [] self.kind = "RSO"   -> RSOLoss_forward(self, h)
      [] self.kind = "SimPO" -> SimPOLoss_forward(self, h)

(***************************************************************************)
(* Hyperparameters a caller may construct a loss with (tenths, lambda_dpop *)
(* in units of One).  __init__ takes any float: the sets hold the          *)
(* defaults, a second in-range value and one value outside the documented  *)
(* range.                                                                  *)
(***************************************************************************)
BetaVals == {1, 5}
SimPOBetaVals == {20}
SmoothingVals == {0, 2, 15}
LambdaVals == {0, 2 * One, -2 * One}
AlphaVals == {0, 10, -10}
RSOGammaVals == {1, 10, -10}
SimPOGammaVals == {5, -5}

\* the constructor's defaults
Defaults(kind) ==
    CASE kind = "DPO"   -> DPOLoss_init(1, 0, 0)
      [] kind = "DPOP"  -> DPOPLoss_init(1, 0, 0)
      [] kind = "RPO"   -> RPOLoss_init(1, 0, 10)
      [] kind = "RSO"   -> RSOLoss_init(1)
      [] kind = "SimPO" -> SimPOLoss_init(20, 5, 0)

AllConfigs ==
    {DPOLoss_init(b, s, l) : b \in BetaVals, s \in SmoothingVals, l \in LambdaVals}
    \cup {DPOPLoss_init(b, s, l) : b \in BetaVals, s \in SmoothingVals, l \in LambdaVals}
    \cup {RPOLoss_init(b, s, a) : b \in BetaVals, s \in SmoothingVals, a \in AlphaVals}
    \cup {RSOLoss_init(g) : g \in RSOGammaVals}
    \cup {SimPOLoss_init(b, g, s) :
             b \in SimPOBetaVals, g \in SimPOGammaVals, s \in SmoothingVals}

\* the constructions explored: those that override at most MaxOverrides of
\* the constructor's defaults
MaxOverrides == 2

Configs ==
    {cfg \in AllConfigs :
        Cardinality({f \in DOMAIN cfg : cfg[f] # Defaults(cfg.kind)[f]})
            <= MaxOverrides}

(***************************************************************************)
(* The caller: builds a loss once, prepares input vectors, calls forward,  *)
(* and may write into the reward tensors it got back.                      *)
(***************************************************************************)
NoLoss == [kind |-> "none"]

NoTensor == [sid |-> "none", graph |-> {}]

NoOut == [status |-> "none", touched |-> {}, losses |-> NoTensor,
          chosen_rewards |-> NoTensor, rejected_rewards |-> NoTensor]

Handle(t) == [sid |-> t.sid, graph |-> t.graph]

Init ==
    /\ loss = NoLoss
    /\ heap = [s \in InputNames \cup OutputNames |->
                 IF s \in InputNames THEN <<ValSeq(s)[1]>>
                 ELSE <<>>]
    /\ out = NoOut
    /\ calls = 0

\* loss = XLoss(...): __init__ stores its arguments
Construct(cfg) ==
    /\ loss = NoLoss
    /\ loss' = cfg
    /\ UNCHANGED <<heap, out, calls>>

\* the caller binds a new tensor to one of forward's parameters for the
\* next call
SetInput(name, vec) ==
    /\ loss # NoLoss
    /\ out.status = "none"
    /\ name \in Params(loss.kind)
    /\ heap' = [heap EXCEPT ![name] = vec]
    /\ UNCHANGED <<loss, out, calls>>

\* the caller drops the results of the last call; their storage is freed
Release ==
    /\ out.status # "none"
    /\ heap' = [s \in DOMAIN heap |-> IF s \in OutputNames THEN <<>> ELSE heap[s]]
    /\ out' = NoOut
    /\ UNCHANGED <<loss, calls>>

\* storage after a call: in-place writes land in the storages they name,
\* each returned tensor that owns fresh storage is kept
HeapAfter(h, r) ==
    [s \in DOMAIN h |->
        IF \E w \in r.writes : w[1] = s
            THEN (CHOOSE w \in r.writes : w[1] = s)[2]
        ELSE IF r.status = "returned" /\ s \in OutputNames
                /\ \E o \in OutputNames : r[o].sid = s
            THEN r[CHOOSE o \in OutputNames : r[o].sid = s].v
        ELSE h[s]]

\* a slip: forward anneals the temperature it has just used
SelfAfterAnnealed(self) ==
    IF "beta" \in DOMAIN self THEN [self EXCEPT !.beta = @ + 1]
    ELSE [self EXCEPT !.gamma = @ + 1]

\* self after forward: no forward assigns an attribute of self
SelfAfter(self) == self

\* the effect of one forward call on the object, the storages and the caller
ForwardStep ==
    /\ loss # NoLoss
    /\ out.status = "none"
    /\ LET r == Forward(loss, heap)
       IN  /\ heap' = HeapAfter(heap, r)
           /\ out' = [status |-> r.status, touched |-> {},
                      losses |-> Handle(r.losses),
                      chosen_rewards |-> Handle(r.chosen_rewards),
                      rejected_rewards |-> Handle(r.rejected_rewards)]
    /\ loss' = SelfAfter(loss)

\* losses, chosen_rewards, rejected_rewards = loss(*inputs)
Call ==
    /\ ForwardStep
    /\ UNCHANGED calls

\* most forward calls counted on one object
MaxCalls == 2

\* the same call, counted
CountedCall ==
    /\ calls < MaxCalls
    /\ ForwardStep
    /\ calls' = calls + 1

\* the caller changes one of the returned reward tensors in place
\* (rewards.add_(1)), once per call
MutateReward(which) ==
    /\ out.status = "returned"
    /\ out.touched = {}
    /\ which \in {"chosen_rewards", "rejected_rewards"}
    /\ heap' = [heap EXCEPT ![out[which].sid] =
                   [i \in 1..Len(@) |-> @[i] + One]]
    /\ out' = [out EXCEPT !.touched = @ \cup {which}]
    /\ UNCHANGED <<loss, calls>>

Next ==
    \/ \E cfg \in Configs : Construct(cfg)
    \/ \E name \in InputNames : \E vec \in Vectors(name) : SetInput(name, vec)
    \/ Call
    \/ Release
    \/ \E which \in {"chosen_rewards", "rejected_rewards"} : MutateReward(which)

Spec == Init /\ [][Next]_vars

\* the objects whose call history is followed: each class with its defaults,
\* and a DPOLoss with smoothing and penalty switched on
HistoryConfigs ==
    {Defaults(kind) : kind \in Kinds} \cup {DPOLoss_init(1, 2, 2 * One)}

NextHistory ==
    \/ \E cfg \in HistoryConfigs : Construct(cfg)
    \/ \E name \in InputNames : \E vec \in Vectors(name) : SetInput(name, vec)
    \/ CountedCall
    \/ Release
    \/ \E which \in {"chosen_rewards", "rejected_rewards"} : MutateReward(which)

\* lambda_dpop = 1e-5, the value the docstring of DPOLoss names
LambdaThreshold == 1

\* the constructions explored on long sequences: those of Configs and a
\* DPOLoss with lambda_dpop = 1e-5
LargeConfigs ==
    Configs \cup {DPOLoss_init(b, 0, LambdaThreshold) : b \in BetaVals}

InitLarge ==
    /\ loss = NoLoss
    /\ heap = [s \in InputNames \cup OutputNames |->
                 IF s \in InputNames THEN <<Magnitude * ValSeq(s)[1]>>
                 ELSE <<>>]
    /\ out = NoOut
    /\ calls = 0

NextLarge ==
    \/ \E cfg \in LargeConfigs : Construct(cfg)
    \/ \E name \in InputNames : \E vec \in LargeVectors(name) : SetInput(name, vec)
    \/ Call
    \/ Release
    \/ \E which \in {"chosen_rewards", "rejected_rewards"} : MutateReward(which)

\* the same caller with the log-probs of long sequences
SpecLarge == InitLarge /\ [][NextLarge]_vars

\* a caller that makes up to MaxCalls forward calls on one object
SpecHistory == Init /\ [][NextHistory]_vars

(***************************************************************************)
(* Properties                                                              *)
(***************************************************************************)
\* forward has been called on the inputs now in the heap
Called == loss # NoLoss /\ out.status # "none"

\* forward returned its three tensors
Done == loss # NoLoss /\ out.status = "returned"

\* the data of a returned tensor
Data(o) == heap[out[o].sid]

\* every parameter of the call has the same length
EqualLengths ==
    \A a, b \in Params(loss.kind) : Len(heap[a]) = Len(heap[b])

BatchSize == Len(heap["policy_chosen_logps"])

\* the vanilla logit of example i, (pc - pr) - (rc - rr), read from the inputs
VanillaLogit(i) ==
    (At(heap["policy_chosen_logps"], i) - At(heap["policy_rejected_logps"], i))
    - (At(heap["reference_chosen_logps"], i) - At(heap["reference_rejected_logps"], i))

\* the logistic preference loss of a logit, in reals scaled by HyperOne:
\* -(1 - s) log_sigmoid(beta x) - s log_sigmoid(-beta x)
LogisticPreference(beta, s, x) ==
    (-(HyperOne - s) * LogSigmoid((beta * x) \div HyperOne)
     - s * LogSigmoid((-beta * x) \div HyperOne)) \div HyperOne

\* C1: for each loss variant and every batch size N, a forward call whose
\* input vectors all have length N returns losses, chosen_rewards and
\* rejected_rewards of length exactly N.
C1_OutputLengths ==
    (Called /\ EqualLengths) =>
        /\ out.status = "returned"
        /\ \A o \in OutputNames : Len(Data(o)) = BatchSize

C1_Witness ==
    /\ Done /\ EqualLengths /\ BatchSize = MaxLen
    /\ loss.kind = "RPO"

\* C2: a forward call whose input vectors differ in length (a length-1
\* vector beside length-N vectors included) is reported as an error; it
\* never returns a result obtained by broadcasting the shorter vector.
C2_MismatchReported ==
    (Called /\ ~EqualLengths) => out.status = "raised"

\* C3: in all five variants the returned chosen_rewards and rejected_rewards
\* are detached: autograd reaches no input from them and they share storage
\* with neither the loss nor an input, while the returned losses stay
\* attached to the policy inputs; a caller's in-place change of a returned
\* reward changes neither the loss nor any input.
C3_RewardsDetached ==
    /\ [](Done =>
            /\ out.chosen_rewards.graph = {}
            /\ out.rejected_rewards.graph = {}
            /\ {"policy_chosen_logps", "policy_rejected_logps"}
                   \subseteq out.losses.graph
            /\ \A o \in {"chosen_rewards", "rejected_rewards"} :
                   out[o].sid \notin InputNames \cup {out.losses.sid})
    /\ [][(out.status = "returned" /\ out'.touched # {}) =>
            /\ heap'[out.losses.sid] = heap[out.losses.sid]
            /\ \A n \in InputNames : heap'[n] = heap[n]]_vars

C3_Witness ==
    /\ Done
    /\ out.touched = {"chosen_rewards"}
    /\ loss.kind = "SimPO"
    /\ BatchSize > 1

\* the factor the rewards are scaled by
RewardScale == IF loss.kind = "RSO" THEN loss.gamma ELSE loss.beta

\* C4: for every example i the returned rewards are a fixed scale times the
\* policy log-probability minus the reference log-probability, the scale
\* being beta for DPO, DPOP and RPO and gamma for RSO; SimPO's rewards are
\* beta times the policy log-probability.  No other hyperparameter and no
\* nll_loss enters.
C4_RewardFormula ==
    (Done /\ out.touched = {}) =>
        /\ \A i \in 1..Len(Data("chosen_rewards")) :
              HyperOne * Data("chosen_rewards")[i] =
                 RewardScale *
                   (IF loss.kind = "SimPO" THEN At(heap["policy_chosen_logps"], i)
                    ELSE At(heap["policy_chosen_logps"], i)
                           - At(heap["reference_chosen_logps"], i))
        /\ \A i \in 1..Len(Data("rejected_rewards")) :
              HyperOne * Data("rejected_rewards")[i] =
                 RewardScale *
                   (IF loss.kind = "SimPO" THEN At(heap["policy_rejected_logps"], i)
                    ELSE At(heap["policy_rejected_logps"], i)
                           - At(heap["reference_rejected_logps"], i))

C4_Witness ==
    /\ Done /\ out.touched = {} /\ EqualLengths /\ BatchSize = MaxLen
    /\ loss.kind = "RSO" /\ loss.gamma = 10
    /\ Data("chosen_rewards")[1] # Data("chosen_rewards")[MaxLen]

\* C5: DPOLoss with lambda_dpop = 0 returns, for every beta and
\* label_smoothing, exactly the vanilla logistic preference loss of
\* logits = (pc - pr) - (rc - rr), also on examples where
\* reference_chosen > policy_chosen.
C5_VanillaAtZeroLambda ==
    (Done /\ loss.kind = "DPO" /\ loss.lambda_dpop = 0) =>
        \A i \in 1..Len(Data("losses")) :
            Data("losses")[i] =
                LogisticPreference(loss.beta, loss.label_smoothing, VanillaLogit(i))

C5_Witness ==
    /\ Done /\ loss.kind = "DPO" /\ loss.lambda_dpop = 0
    /\ loss.label_smoothing = 2
    /\ EqualLengths /\ BatchSize > 1
    /\ \E i \in 1..BatchSize :
          heap["reference_chosen_logps"][i] > heap["policy_chosen_logps"][i]

\* the logit DPOLoss feeds to the loss: the vanilla logit less lambda_dpop
\* times max(0, rc - pc)
DPOLogit(i) ==
    VanillaLogit(i)
    - (loss.lambda_dpop *
         (Max(0, At(heap["reference_chosen_logps"], i)
                   - At(heap["policy_chosen_logps"], i)) \div LambdaGrain))
         \div (One \div LambdaGrain)

\* the inputs of the spec's scenario: pc = -1.0, pr = -2.0, rc = -1.5, rr = -2.5
ScenarioInputs ==
    /\ heap["policy_chosen_logps"] = <<-One>>
    /\ heap["policy_rejected_logps"] = <<-2 * One>>
    /\ heap["reference_chosen_logps"] = <<-(3 * One) \div 2>>
    /\ heap["reference_rejected_logps"] = <<-(5 * One) \div 2>>

\* C6: DPOLoss with label_smoothing = 0 gives loss[i] = -log_sigmoid(beta *
\* logits[i]), the reversed-label term contributing nothing; the scenario
\* inputs with beta = 0.1 and lambda_dpop = 0 give loss = ln 2 = 0.6931.
C6_NoSmoothing ==
    (Done /\ loss.kind = "DPO" /\ loss.label_smoothing = 0) =>
        /\ \A i \in 1..Len(Data("losses")) :
              Data("losses")[i] = -LogSigmoid((loss.beta * DPOLogit(i)) \div HyperOne)
        /\ (ScenarioInputs /\ loss.beta = 1 /\ loss.lambda_dpop = 0) =>
              Data("losses") = <<69310>>

C6_Witness ==
    /\ Done /\ loss = DPOLoss_init(1, 0, 0)
    /\ ScenarioInputs

\* C7: with logits = (pc - pr) - (rc - rr), the RSO loss of an example is
\* exactly 0 whenever gamma * logits >= 1 and otherwise strictly positive
\* and equal to 1 - gamma * logits; logits = 0 with gamma = 0.1 gives 1.0.
C7_Hinge ==
    (Done /\ loss.kind = "RSO") =>
        \A i \in 1..Len(Data("losses")) :
            /\ loss.gamma * VanillaLogit(i) >= HyperOne * One =>
                   Data("losses")[i] = 0
            /\ loss.gamma * VanillaLogit(i) < HyperOne * One =>
                   /\ Data("losses")[i] > 0
                   /\ HyperOne * Data("losses")[i] =
                          HyperOne * One - loss.gamma * VanillaLogit(i)
            /\ (VanillaLogit(i) = 0 /\ loss.gamma = 1) => Data("losses")[i] = One

C7_Witness ==
    /\ Done /\ loss.kind = "RSO" /\ EqualLengths /\ BatchSize > 1
    /\ \E i, j \in 1..BatchSize :
          /\ loss.gamma * VanillaLogit(i) >= HyperOne * One
          /\ loss.gamma * VanillaLogit(j) < HyperOne * One
          /\ Data("losses")[i] = 0
          /\ Data("losses")[j] > 0

\* C8: SimPO's margin offset gamma / beta is the same for every example:
\* logits[i] = (pc[i] - pr[i]) - gamma / beta, so when pc[i] = pr[i] for all
\* examples every logit is -gamma / beta and every example has the loss of
\* that logit.
C8_FixedMargin ==
    (Done /\ loss.kind = "SimPO") =>
        /\ \A i \in 1..Len(Data("losses")) :
              Data("losses")[i] =
                 LogisticPreference(
                    loss.beta, loss.label_smoothing,
                    (At(heap["policy_chosen_logps"], i)
                       - At(heap["policy_rejected_logps"], i))
                    - (loss.gamma * One) \div loss.beta)
        /\ (EqualLengths /\ heap["policy_chosen_logps"] = heap["policy_rejected_logps"]) =>
              \A i \in 1..BatchSize :
                 Data("losses")[i] =
                    LogisticPreference(loss.beta, loss.label_smoothing,
                                       -((loss.gamma * One) \div loss.beta))

C8_Witness ==
    /\ Done /\ loss.kind = "SimPO" /\ loss.gamma = 5
    /\ BatchSize > 1
    /\ heap["policy_chosen_logps"] = heap["policy_rejected_logps"]

\* the ranges C9 names: label_smoothing in [0, 1]; lambda_dpop, rpo_alpha
\* and gamma not negative
InRange(cfg) ==
    /\ "label_smoothing" \in DOMAIN cfg =>
           (0 <= cfg.label_smoothing /\ cfg.label_smoothing <= HyperOne)
    /\ "lambda_dpop" \in DOMAIN cfg => cfg.lambda_dpop >= 0
    /\ "rpo_alpha" \in DOMAIN cfg => cfg.rpo_alpha >= 0
    /\ "gamma" \in DOMAIN cfg => cfg.gamma >= 0

\* C9: out-of-range hyperparameters (label_smoothing outside [0, 1], negative
\* lambda_dpop, rpo_alpha or gamma) are rejected at construction: no loss
\* object holds one, and none later returns a result from forward.
C9_ConfigValidated ==
    Done => InRange(loss)

\* C10: RPO's loss is the penalty-free DPO loss plus the weighted NLL term,
\* RPO.loss[i] = DPO(beta, label_smoothing, lambda_dpop = 0).loss[i]
\* + rpo_alpha * nll_loss[i]; with rpo_alpha = 0 the two losses are the same,
\* and the rewards of the two are identical for every rpo_alpha.
C10_RPOIsDPOPlusNLL ==
    (Done /\ loss.kind = "RPO") =>
        LET dpo == DPOLoss_forward(
                      DPOLoss_init(loss.beta, loss.label_smoothing, 0), heap)
        IN  /\ dpo.status = "returned"
            /\ \A i \in 1..Len(Data("losses")) :
                  HyperOne * Data("losses")[i] =
                     HyperOne * At(dpo.losses.v, i)
                     + loss.rpo_alpha * At(heap["nll_loss"], i)
            /\ (loss.rpo_alpha = 0 /\ EqualLengths) =>
                  Data("losses") = dpo.losses.v
            /\ out.touched = {} =>
                  /\ Data("chosen_rewards") = dpo.chosen_rewards.v
                  /\ Data("rejected_rewards") = dpo.rejected_rewards.v

C10_Witness ==
    /\ Done /\ loss.kind = "RPO" /\ loss.rpo_alpha = 10
    /\ loss.label_smoothing = 2
    /\ EqualLengths /\ BatchSize = MaxLen

FreshHeap ==
    [s \in DOMAIN heap |-> IF s \in InputNames THEN heap[s] ELSE <<>>]

\* C12: every loss is a pure function of its inputs and fixed configuration:
\* whatever calls came before, the outputs of a forward call are those the
\* present inputs and the hyperparameters set at construction determine, and
\* no step after construction, forward included, changes a hyperparameter.
C12_PureForward ==
    /\ [](Called =>
            /\ out.status = Forward(loss, FreshHeap).status
            /\ Done =>
                  /\ Data("losses") = Forward(loss, FreshHeap).losses.v
                  /\ \A o \in {"chosen_rewards", "rejected_rewards"} \ out.touched :
                        Data(o) = Forward(loss, FreshHeap)[o].v)
    /\ [][loss # NoLoss => loss' = loss]_vars

C12_Witness ==
    /\ Done /\ calls = MaxCalls
    /\ loss = DPOLoss_init(1, 2, 2 * One)
    /\ EqualLengths /\ BatchSize > 1
    /\ heap["policy_chosen_logps"][1] < heap["reference_chosen_logps"][1]

\* a float that is neither inf nor -inf
IsFinite(x) == Abs(x) < FloatInf

\* the logit the smoothed logistic loss of DPO, RPO or SimPO is taken of
SmoothedLogit(i) ==
    CASE loss.kind = "DPO" -> DPOLogit(i)
      [] loss.kind = "RPO" -> VanillaLogit(i)
      [] loss.kind = "SimPO" ->
            (At(heap["policy_chosen_logps"], i)
               - At(heap["policy_rejected_logps"], i))
            - (loss.gamma * One) \div loss.beta

\* beta * logits[i], the argument of the log-sigmoid
ScaledLogit(i) == (loss.beta * SmoothedLogit(i)) \div HyperOne

\* C13: in the smoothed logistic loss of DPO, RPO and SimPO both branches,
\* -log_sigmoid(beta * logits) and -log_sigmoid(-beta * logits), and the
\* returned loss are finite also where beta * logits is beyond the range in
\* which exp overflows, on either side.
C13_BranchesFinite ==
    (Done /\ loss.kind \in {"DPO", "RPO", "SimPO"}) =>
        \A i \in 1..Len(Data("losses")) :
            /\ IsFinite(-LogSigmoid(ScaledLogit(i)))
            /\ IsFinite(-LogSigmoid(-ScaledLogit(i)))
            /\ IsFinite(Data("losses")[i])

C13_Witness ==
    /\ Done /\ loss.kind = "DPO"
    /\ EqualLengths
    /\ \E i, j \in 1..BatchSize :
          /\ ScaledLogit(i) > ExpOverflow
          /\ ScaledLogit(j) < -ExpOverflow

\* C14: the DPOP penalty inside DPOLoss has an impact on the losses only if
\* lambda_dpop is bigger than 1e-5: with 0 <= lambda_dpop <= 1e-5 DPOLoss
\* returns, on all inputs, the losses it returns with lambda_dpop = 0.
C14_NoImpactUpToThreshold ==
    (Done /\ loss.kind = "DPO"
          /\ 0 <= loss.lambda_dpop /\ loss.lambda_dpop <= LambdaThreshold) =>
        Data("losses") =
            DPOLoss_forward(
                DPOLoss_init(loss.beta, loss.label_smoothing, 0), heap).losses.v

C16_InputsUnmodified ==
    /\ []((Done /\ loss.kind = "DPO") =>
             DPOLoss_logits(loss, heap).sid \notin InputNames)
    /\ [][(out.status = "none" /\ out'.status # "none") =>
             \A n \in InputNames : heap'[n] = heap[n]]_vars

C16_Witness ==
    /\ Done /\ loss.kind = "DPO" /\ loss.lambda_dpop # 0
    /\ EqualLengths /\ BatchSize = MaxLen
    /\ \E i \in 1..BatchSize : DPOLoss_logits(loss, heap).v[i] # VanillaLogit(i)

====
